---- MODULE Spec2Model ----
(***************************************************************************)
(* Model of lib/gui/popup_configure.py: the "Configure Plugins" popup of   *)
(* the Faceswap GUI.                                                       *)
(*                                                                         *)
(* Python strings are tuples of one-character strings, so that split,      *)
(* rfind, replace, title, str and the ordering used by sorted are computed *)
(* character by character.  Python values are records [t, n] (t the type). *)
(***************************************************************************)
EXTENDS Integers, Sequences, FiniteSets, TLC

MaxSections == 3        \* sections of the configurations whose layout is built
MaxDialogSections == 2  \* sections of the configurations that are edited
MaxOpens == 2           \* dialogs constructed in one run

VARIABLES
    defaults,    \* config.defaults: section -> "helptext" and the options
    config,      \* config.config: the collaborator's ConfigParser object
    section,     \* config.section: the collaborator's current section
    configfile,  \* the content of the file config.save_config() writes
    writes,      \* how often config.save_config() has been invoked
    POPUP,       \* the module-level registry: identifier -> window
    windows,     \* every ConfigurePlugins instance constructed so far
    value,       \* options[key]["value"] of the shared defaults dicts
    selected,    \* options[key]["selected"]: the tk variable of each option
    touched,     \* history: options edited or reset since the last load
    opened,      \* history: the identifier and the collaborator at the last open
    saved,       \* history: the edit values the last completed save_config saw
    events,      \* history: the calls the last handler made, in order
    last         \* history: the last handler, its window, whether it faulted

vars == <<defaults, config, section, configfile, writes, POPUP, windows,
          value, selected, touched, opened, saved, events, last>>

-----------------------------------------------------------------------------
(* Python strings *)

\* The characters in code point order, which is the order sorted() compares by.
Alphabet ==
    <<" ", "#", ".", "0", "1", "2", "3", "4", "5", "6", "7", "8", "9", "=",
      "A", "B", "C", "D", "E", "F", "G", "H", "I", "J", "K", "L", "M",
      "N", "O", "P", "Q", "R", "S", "T", "U", "V", "W", "X", "Y", "Z", "_",
      "a", "b", "c", "d", "e", "f", "g", "h", "i", "j", "k", "l", "m",
      "n", "o", "p", "q", "r", "s", "t", "u", "v", "w", "x", "y", "z">>

CodePoint ==
    [c \in {Alphabet[i] : i \in 1..Len(Alphabet)} |->
        CHOOSE i \in 1..Len(Alphabet) : Alphabet[i] = c]
Ord(c) == CodePoint[c]

IsLower(c) == Ord(c) >= Ord("a") /\ Ord(c) <= Ord("z")
IsUpper(c) == Ord(c) >= Ord("A") /\ Ord(c) <= Ord("Z")
IsCased(c) == IsLower(c) \/ IsUpper(c)
ToUpper(c) == IF IsLower(c) THEN Alphabet[Ord(c) - Ord("a") + Ord("A")] ELSE c
ToLower(c) == IF IsUpper(c) THEN Alphabet[Ord(c) - Ord("A") + Ord("a")] ELSE c

\* s < t for Python strings: the first differing character decides, a proper
\* prefix is smaller.
RECURSIVE StrLess(_, _)
StrLess(s, t) ==
    IF t = <<>> THEN FALSE
    ELSE IF s = <<>> THEN TRUE
    ELSE IF Head(s) # Head(t) THEN Ord(Head(s)) < Ord(Head(t))
    ELSE StrLess(Tail(s), Tail(t))

\* sorted(list(S)) for a set of strings
RECURSIVE sorted(_)
sorted(S) ==
    IF S = {} THEN <<>>
    ELSE LET m == CHOOSE x \in S : \A y \in S \ {x} : StrLess(x, y)
         IN  <<m>> \o sorted(S \ {m})

\* s.find(c) and s.rfind(c) as 1-based positions, 0 when c does not occur
find(s, c) ==
    IF \E i \in 1..Len(s) : s[i] = c
    THEN CHOOSE i \in 1..Len(s) : s[i] = c /\ \A j \in 1..(i - 1) : s[j] # c
    ELSE 0
rfind(s, c) ==
    IF \E i \in 1..Len(s) : s[i] = c
    THEN CHOOSE i \in 1..Len(s) : s[i] = c /\ \A j \in (i + 1)..Len(s) : s[j] # c
    ELSE 0

\* s.split(".")[0]
split0(s) == IF find(s, ".") = 0 THEN s ELSE SubSeq(s, 1, find(s, ".") - 1)

\* s.replace(a, b) for single characters
replace(s, a, b) == [i \in 1..Len(s) |-> IF s[i] = a THEN b ELSE s[i]]

\* s.title(): a cased character is upper case after an uncased one (or at the
\* start) and lower case after a cased one
title(s) ==
    [i \in 1..Len(s) |->
        IF i > 1 /\ IsCased(s[i - 1]) THEN ToLower(s[i]) ELSE ToUpper(s[i])]

-----------------------------------------------------------------------------
(* Python values and str() *)

VInt(n) == [t |-> "int", n |-> n]
VBool(b) == [t |-> "bool", n |-> IF b THEN 1 ELSE 0]

Digits == <<"0", "1", "2", "3", "4", "5", "6", "7", "8", "9">>

RECURSIVE IntStr(_)
IntStr(n) == IF n < 10 THEN <<Digits[n + 1]>>
             ELSE IntStr(n \div 10) \o <<Digits[(n % 10) + 1]>>

\* str(v) of line 173
str(v) ==
    IF v.t = "int" THEN IntStr(v.n)
    ELSE IF v.n = 1 THEN <<"T", "r", "u", "e">> ELSE <<"F", "a", "l", "s", "e">>

-----------------------------------------------------------------------------
(* Python dicts: the keys in insertion order and the mapping *)

EmptyDict == [keys |-> <<>>, at |-> <<>>]
Has(d, k) == k \in DOMAIN d.at
Put(d, k, v) ==
    [keys |-> IF Has(d, k) THEN d.keys ELSE Append(d.keys, k),
     at |-> [x \in (DOMAIN d.at) \cup {k} |-> IF x = k THEN v ELSE d.at[x]]]
Del(d, k) ==
    [keys |-> SelectSeq(d.keys, LAMBDA x : x # k),
     at |-> [x \in (DOMAIN d.at) \ {k} |-> d.at[x]]]
Range(q) == {q[i] : i \in 1..Len(q)}

-----------------------------------------------------------------------------
(* The configurations the dialog is opened on *)

GLOBAL == <<"g", "l", "o", "b", "a", "l">>
HELPTEXT == <<"h", "e", "l", "p", "t", "e", "x", "t">>
OPT1 == <<"o", "p", "t", "1">>
FLAG == <<"f", "l", "a", "g">>

\* Section names: "global", "a", "a.x", "a.x_y", "z.x.y"
SectionPool ==
    { GLOBAL, <<"a">>, <<"a", ".", "x">>, <<"a", ".", "x", "_", "y">>,
      <<"z", ".", "x", ".", "y">> }
\* The sections of the configurations that are edited: "global" (two options),
\* "a.x" (one option, of the same name as one of "global") and "z.x.y" (none)
DialogPool == { GLOBAL, <<"a", ".", "x">>, <<"z", ".", "x", ".", "y">> }

\* The configuration identifiers popup_config is called with ("ex", "tr")
Identifiers == { <<"e", "x">>, <<"t", "r">> }

Option(dflt, help) == [default |-> dflt, helptext |-> help]

\* The options of a section, in the order of its defaults dict (after "helptext")
OptionsOf(s) ==
    IF s = GLOBAL
      THEN Put(Put(EmptyDict, OPT1, Option(VInt(5), <<"n">>)),
               FLAG, Option(VBool(TRUE), <<"b">>))
    ELSE IF s = <<"a">>
      THEN Put(EmptyDict, OPT1, Option(VInt(12), <<"n">>))
    ELSE IF s = <<"a", ".", "x">>
      THEN Put(EmptyDict, OPT1, Option(VInt(5), <<"m">>))
    ELSE IF s = <<"a", ".", "x", "_", "y">>
      THEN Put(EmptyDict, FLAG, Option(VBool(FALSE), <<"b">>))
    ELSE EmptyDict

\* The values an option's control can be set to
ValuesOf(opt) ==
    IF opt.default.t = "int" THEN {VInt(5), VInt(12)}
    ELSE {VBool(TRUE), VBool(FALSE)}

\* config.defaults[section]: "helptext" (when the section has one) and its options
SectionDefaults(s, withHelp) ==
    LET o == OptionsOf(s)
        h == [helptext |-> s]
    IN  IF withHelp
          THEN [keys |-> <<HELPTEXT>> \o o.keys,
                at |-> [k \in {HELPTEXT} \cup DOMAIN o.at |->
                          IF k = HELPTEXT THEN h ELSE o.at[k]]]
          ELSE o

RECURSIVE DefaultsOf(_, _)
DefaultsOf(order, nohelp) ==
    IF order = <<>> THEN EmptyDict
    ELSE Put(DefaultsOf(SubSeq(order, 1, Len(order) - 1), nohelp),
             order[Len(order)],
             SectionDefaults(order[Len(order)], order[Len(order)] \notin nohelp))

\* The sequences without repetition of at most n elements of S
RECURSIVE Orders(_, _)
Orders(S, n) ==
    IF n = 0 THEN { <<>> }
    ELSE LET shorter == Orders(S, n - 1)
         IN  shorter \cup
             { Append(q, x) : <<q, x>> \in
                 { p \in shorter \X S : Len(p[1]) = n - 1 /\ p[2] \notin Range(p[1]) } }

-----------------------------------------------------------------------------
(* The configuration collaborator (lib/config.py) and ConfigParser *)

Item(s) == [set |-> TRUE, s |-> s]          \* "key = value"
NoValue == [set |-> FALSE, s |-> <<>>]      \* a key without a value (a comment)

lower(s) == [i \in 1..Len(s) |-> ToLower(s[i])]

\* ConfigParser(allow_no_value=True) with the identity id
ConfigParser(id) == [id |-> id, sects |-> EmptyDict]
\* parser.add_section(section)
add_section(parser, sect) ==
    [parser EXCEPT !.sects = Put(@, sect, EmptyDict)]
\* parser.set(section, option, value): the option name goes through optionxform
set(parser, sect, option, val) ==
    [parser EXCEPT !.sects = Put(@, sect, Put(@.at[sect], lower(option), val))]

\* config.format_help(helptext, is_section)
format_help(helptext, is_section) == <<"#", " ">> \o helptext

\* config.insert_config_section(section, helptext, config=parser)
insert_config_section(parser, sect, helptext) ==
    set(add_section(parser, sect), sect, format_help(helptext, TRUE), NoValue)

RECURSIVE StrInt(_)
StrInt(s) ==
    IF s = <<>> THEN 0
    ELSE 10 * StrInt(SubSeq(s, 1, Len(s) - 1))
         + (CHOOSE d \in 0..9 : Digits[d + 1] = s[Len(s)])

\* config.get(section, key): the stored text read as the type of the default
ParseAs(t, s) ==
    IF t = "int" THEN VInt(StrInt(s))
    ELSE VBool(lower(s) \in { <<"t", "r", "u", "e">>, <<"1">>, <<"y", "e", "s">>,
                              <<"o", "n">> })

\* config.config_dict: the stored values of the current section, comments skipped
config_dict(parser, dflts, sect) ==
    LET items == parser.sects.at[sect]
        ks == { k \in DOMAIN items.at : k[1] # "#" /\ Has(dflts.at[sect], k) }
    IN  [k \in ks |-> ParseAs(dflts.at[sect].at[k].default.t, items.at[k].s)]

\* The stored section as the collaborator writes it: the header comment, then
\* for each stored option its help comment and its "key = value" line
RECURSIVE StoredItems(_, _, _, _)
StoredItems(parser, sect, ks, vals) ==
    IF ks = <<>> THEN parser
    ELSE LET k == Head(ks)
             p == IF k \in DOMAIN vals
                    THEN set(set(parser, sect,
                                 format_help(OptionsOf(sect).at[k].helptext, FALSE),
                                 NoValue),
                             sect, k, Item(str(vals[k])))
                    ELSE parser
         IN  StoredItems(p, sect, Tail(ks), vals)

\* The value of option k of section s that differs from its default
OtherValue(s, k) ==
    CHOOSE v \in ValuesOf(OptionsOf(s).at[k]) : v # OptionsOf(s).at[k].default

RECURSIVE StoredConfig(_, _, _)
StoredConfig(order, stored, present) ==
    IF order = <<>> THEN ConfigParser(0)
    ELSE LET s == order[Len(order)]
             rest == StoredConfig(SubSeq(order, 1, Len(order) - 1), stored, present)
             ks == { k \in DOMAIN OptionsOf(s).at : <<s, k>> \in present }
         IN  IF s \in stored
               THEN StoredItems(insert_config_section(rest, s, s), s,
                                OptionsOf(s).keys, [k \in ks |-> OtherValue(s, k)])
               ELSE rest

-----------------------------------------------------------------------------
(* The program state a handler runs on, and the calls it makes *)

State ==
    [config |-> config, section |-> section, configfile |-> configfile,
     writes |-> writes, POPUP |-> POPUP, windows |-> windows, value |-> value,
     selected |-> selected, events |-> <<>>, fault |-> FALSE]

\* key is the section, or the identifier, the call is about
Ev(call, win, key, item) == [call |-> call, win |-> win, key |-> key, item |-> item]

Upd(f, k, v) == [x \in (DOMAIN f) \cup {k} |-> IF x = k THEN v ELSE f[x]]

Live(ws) == { w \in 1..Len(ws) : ws[w].destroys = 0 }

\* tk.Toplevel.destroy(), the command of the Cancel button (line 128).  The
\* controls go with the window: nothing reads the values they held again (the
\* next get_config and its control panels set them anew), so they are dropped.
destroy(st, w) ==
    [st EXCEPT !.windows[w].destroys = @ + 1,
               !.value = <<>>, !.selected = <<>>,
               !.events = Append(@, Ev("destroy", w, <<>>, <<>>))]

\* config.save_config(): the collaborator writes its parser to the file
write_file(st) ==
    [st EXCEPT !.configfile = st.config.sects, !.writes = @ + 1,
               !.events = Append(@, Ev("save_config", 0, <<>>, <<>>))]

-----------------------------------------------------------------------------
(* ConfigurePlugins.get_config, lines 59-75 *)

\* line 66
\* (a variant: the part before the last ".")
category_last(sect) ==
    IF rfind(sect, ".") = 0 THEN sect ELSE SubSeq(sect, 1, rfind(sect, ".") - 1)
category_of(sect) == split0(sect)

\* line 73: config_dict.get(key, options[key]["default"])
load_value(parser, sect, key) ==
    LET stored == config_dict(parser, defaults, sect)
    IN  IF key \in DOMAIN stored THEN stored[key]
        ELSE defaults.at[sect].at[key].default

\* lines 69-73: acc is [conf, plugin_info, value, section]
RECURSIVE get_config_keys(_, _, _, _)
get_config_keys(parser, sect, ks, acc) ==
    IF ks = <<>> THEN acc
    ELSE LET key == Head(ks)
             nxt == IF key = HELPTEXT
                      THEN [acc EXCEPT !.plugin_info =
                                Put(@, sect, defaults.at[sect].at[key].helptext)]
                      ELSE [acc EXCEPT !.value =
                                Upd(@, <<sect, key>>, load_value(parser, sect, key))]
         IN  get_config_keys(parser, sect, Tail(ks), nxt)

\* lines 64-68: the grouping holds the dict of defaults itself, here its name
RECURSIVE get_config_sections(_, _, _)
get_config_sections(parser, sects, acc) ==
    IF sects = <<>> THEN acc
    ELSE LET sect == Head(sects)
             category == category_of(sect)
             inner == IF Has(acc.conf, category) THEN acc.conf.at[category]
                      ELSE EmptyDict
             grouped == [acc EXCEPT !.section = sect,
                                    !.conf = Put(@, category, Put(inner, sect, sect))]
         IN  get_config_sections(parser, Tail(sects),
                 get_config_keys(parser, sect, defaults.at[sect].keys, grouped))

get_config(st) ==
    get_config_sections(st.config, st.config.sects.keys,
        [conf |-> EmptyDict, plugin_info |-> EmptyDict, value |-> st.value,
         section |-> st.section])

-----------------------------------------------------------------------------
(* ConfigurePlugins.build and build_page, lines 77-114 *)

\* ControlPanel(parent, options, info): one control per option of the section
ControlPanel(sect, info) == [plugin |-> sect, info |-> info, text |-> <<>>]

\* lines 104-106: the text of a plugin's sub-tab
plugin_title(plugin) ==
    title(replace(SubSeq(plugin, rfind(plugin, ".") + 1, Len(plugin)), "_", " "))

\* line 97
\* (a variant: a notebook only for several plugins)
nested_if_many(plugins, category) == Len(plugins) > 1
nested(plugins, category) == \E i \in 1..Len(plugins) : plugins[i] # category

\* lines 93-114
build_page(conf, info, category) ==
    LET plugins == sorted(DOMAIN conf.at[category].at)
    IN  IF nested(plugins, category)
          THEN [kind |-> "notebook",
                panels |-> [i \in 1..Len(plugins) |->
                    [ControlPanel(conf.at[category].at[plugins[i]],
                                  info.at[plugins[i]])
                        EXCEPT !.text = plugin_title(plugins[i])]]]
          ELSE [kind |-> "panel",
                panels |-> <<ControlPanel(conf.at[category].at[plugins[1]],
                                          info.at[plugins[1]])>>]

\* lines 82-84
\* (a variant: "global" is left where sorted puts it)
categories_sorted(conf) == sorted(DOMAIN conf.at)
categories(conf) ==
    LET cats == sorted(DOMAIN conf.at)
    IN  IF GLOBAL \in Range(cats)
          THEN <<GLOBAL>> \o SelectSeq(cats, LAMBDA c : c # GLOBAL)
          ELSE cats

\* lines 85-87: one tab per category
build(conf, info) ==
    LET cats == categories(conf)
    IN  [i \in 1..Len(cats) |->
            [category |-> cats[i], text |-> title(cats[i]),
             page |-> build_page(conf, info, cats[i])]]

\* The tk variables the control panels of the pages create, set to the values
\* get_config loaded
bound(tabs, val, sel) ==
    LET sects == UNION { { tabs[i].page.panels[j].plugin :
                              j \in 1..Len(tabs[i].page.panels) } :
                         i \in 1..Len(tabs) }
        opts == { o \in DOMAIN val : o[1] \in sects }
    IN  [o \in (DOMAIN sel) \cup opts |-> IF o \in opts THEN val[o] ELSE sel[o]]

\* ConfigurePlugins.__init__, lines 31-47
ConfigurePlugins(st, name) ==
    LET got == get_config(st)
        tabs == build(got.conf, got.plugin_info)
        window == [destroys |-> 0, config_dict_gui |-> got.conf,
                   plugin_info |-> got.plugin_info, tabs |-> tabs]
    IN  [st EXCEPT !.section = got.section, !.value = got.value,
                   !.selected = bound(tabs, got.value, st.selected),
                   !.windows = Append(@, window),
                   !.events = Append(@, Ev("ConfigurePlugins", Len(st.windows) + 1,
                                           <<>>, <<>>))]

-----------------------------------------------------------------------------
(* popup_config, lines 18-26 *)

register(st, name) ==
    [st EXCEPT !.POPUP = Put(@, name, Len(st.windows)),
               !.events = Append(@, Ev("register", Len(st.windows), <<>>, <<>>))]

\* line 24
unregister(st, p_key) ==
    [st EXCEPT !.POPUP = Del(@, p_key),
               !.events = Append(@, Ev("del", st.POPUP.at[p_key], p_key, <<>>))]

\* (a variant: the open popup is unregistered but not destroyed)
popup_config_keep(st, name) ==
    LET closed == IF st.POPUP.keys # <<>>
                    THEN unregister(st, st.POPUP.keys[1])
                    ELSE st
    IN  register(ConfigurePlugins(closed, name), name)

popup_config(st, name) ==
    LET closed == IF st.POPUP.keys # <<>>
                    THEN LET p_key == st.POPUP.keys[1]
                         IN  unregister(destroy(st, st.POPUP.at[p_key]), p_key)
                    ELSE st
    IN  register(ConfigurePlugins(closed, name), name)

-----------------------------------------------------------------------------
(* ConfigurePlugins.reset, lines 139-151 *)

\* line 144
lookup(sect) ==
    IF find(sect, ".") # 0 THEN <<split0(sect), sect>> ELSE <<sect, sect>>

\* line 148
\* (a variant: the value the dialog loaded)
reset_value_shown(st, sect, item) == st.value[<<sect, item>>]
reset_value(st, sect, item) == defaults.at[sect].at[item].default

\* lines 145-151: the items of one section; a missing key of the grouping faults
RECURSIVE reset_items(_, _, _, _)
reset_items(st, w, sect, ks) ==
    IF ks = <<>> \/ st.fault THEN st
    ELSE LET item == Head(ks)
             gui == st.windows[w].config_dict_gui
             lk == lookup(sect)
         IN  IF item = HELPTEXT THEN reset_items(st, w, sect, Tail(ks))
             ELSE IF ~Has(gui, lk[1]) \/ ~Has(gui.at[lk[1]], lk[2])
               THEN [st EXCEPT !.fault = TRUE]
             ELSE reset_items(
                    [st EXCEPT !.selected[<<gui.at[lk[1]].at[lk[2]], item>>] =
                                    reset_value(st, sect, item),
                               !.events = Append(@, Ev("set", w, sect, item))],
                    w, sect, Tail(ks))

RECURSIVE reset_sections(_, _, _)
reset_sections(st, w, sects) ==
    IF sects = <<>> \/ st.fault THEN st
    ELSE reset_sections(reset_items(st, w, Head(sects), defaults.at[Head(sects)].keys),
                        w, Tail(sects))

reset(st, w) == reset_sections(st, w, defaults.keys)

-----------------------------------------------------------------------------
(* ConfigurePlugins.save_config, lines 153-178 *)

\* lines 156-158: section -> options, over all categories
options_of(gui) ==
    LET sects == UNION { DOMAIN gui.at[c].at : c \in DOMAIN gui.at }
    IN  [s \in sects |->
            LET c == CHOOSE c \in DOMAIN gui.at : s \in DOMAIN gui.at[c].at
            IN  gui.at[c].at[s]]

\* line 173: what is written for an option
\* (a variant: the default)
new_value_default(st, ref, sect, item) == str(defaults.at[sect].at[item].default)
new_value(st, ref, sect, item) == str(st.selected[<<ref, item>>])

\* lines 164-173: acc is [st, parser]
RECURSIVE save_items(_, _, _, _)
save_items(acc, w, sect, ks) ==
    IF ks = <<>> \/ acc.st.fault THEN acc
    ELSE LET item == Head(ks)
             options == options_of(acc.st.windows[w].config_dict_gui)
         IN  IF item = HELPTEXT THEN save_items(acc, w, sect, Tail(ks))
             ELSE IF sect \notin DOMAIN options
               THEN [acc EXCEPT !.st.fault = TRUE]
             ELSE LET helptext == format_help(defaults.at[sect].at[item].helptext,
                                              FALSE)
                      commented == set(acc.parser, sect, helptext, NoValue)
                  IN  save_items(
                        [st |-> [acc.st EXCEPT !.events =
                                    Append(@, Ev("set", w, sect, item))],
                         parser |-> set(commented, sect, item,
                                        Item(new_value(acc.st, options[sect],
                                                       sect, item)))],
                        w, sect, Tail(ks))

\* lines 161-163
RECURSIVE save_sections(_, _, _)
save_sections(acc, w, sects) ==
    IF sects = <<>> \/ acc.st.fault THEN acc
    ELSE LET sect == Head(sects)
             items == defaults.at[sect]
         IN  IF ~Has(items, HELPTEXT) THEN [acc EXCEPT !.st.fault = TRUE]
             ELSE save_sections(
                    save_items(
                      [st |-> [acc.st EXCEPT !.events =
                                  Append(@, Ev("insert_config_section", w, sect, <<>>))],
                       parser |-> insert_config_section(acc.parser, sect,
                                                        items.at[HELPTEXT].helptext)],
                      w, sect, items.keys),
                    w, Tail(sects))

\* line 174
assign(st, parser) ==
    [st EXCEPT !.config = parser,
               !.events = Append(@, Ev("assign", 0, <<>>, <<>>))]

\* lines 174-177
\* (a variant: the dialog is destroyed first)
save_tail_close_first(st, parser, w) == write_file(assign(destroy(st, w), parser))
save_tail(st, parser, w) == destroy(write_file(assign(st, parser)), w)

\* (a variant: the collaborator's parser is replaced before the values are
\* collected)
save_config_assign_first(st, w) ==
    LET early == assign(st, ConfigParser(w))
        built == save_sections([st |-> early, parser |-> ConfigParser(w)],
                               w, defaults.keys)
    IN  IF built.st.fault THEN built.st
        ELSE destroy(write_file([built.st EXCEPT !.config = built.parser]), w)

save_config(st, w) ==
    LET built == save_sections([st |-> st, parser |-> ConfigParser(w)],
                               w, defaults.keys)
    IN  IF built.st.fault THEN built.st
        ELSE save_tail(built.st, built.parser, w)

-----------------------------------------------------------------------------------------------------------------------------------------------------
(* The specifications *)

Commit(st) ==
    /\ config' = st.config
    /\ section' = st.section
    /\ configfile' = st.configfile
    /\ writes' = st.writes
    /\ POPUP' = st.POPUP
    /\ windows' = st.windows
    /\ value' = st.value
    /\ selected' = st.selected
    /\ events' = st.events
    /\ defaults' = defaults

OptionsIn(sects) ==
    { o \in sects \X {OPT1, FLAG} : o[2] \in DOMAIN OptionsOf(o[1]).at }

\* The collaborator hands over defaults (sections in the given order, those of
\* nohelp without "helptext") and a stored configuration that lists the sections
\* of stored, with values for the options of present.  Every stored section has
\* defaults and a help text, so that the dialog can be constructed.
InitWith(order, stored, nohelp, present) ==
    /\ defaults = DefaultsOf(order, nohelp)
    /\ config = StoredConfig(order, stored, present)
    /\ configfile = config.sects
    /\ section = <<>>
    /\ writes = 0
    /\ POPUP = EmptyDict
    /\ windows = <<>>
    /\ value = <<>>
    /\ selected = <<>>
    /\ touched = {}
    /\ opened = [name |-> <<>>, config |-> config, configfile |-> configfile,
                 writes |-> 0]
    /\ saved = [win |-> 0, selected |-> <<>>, mixed |-> FALSE]
    /\ events = <<>>
    /\ last = [op |-> "init", win |-> 0, fault |-> FALSE]

Init ==
    \E order \in Orders(DialogPool, MaxDialogSections) \ { <<>> } :
      \E stored \in SUBSET Range(order) :
        \E nohelp \in SUBSET (Range(order) \ stored) :
          \E present \in SUBSET OptionsIn(stored) :
            InitWith(order, stored, nohelp, present)

InitLayout ==
    \E order \in Orders(SectionPool, MaxSections) \ { <<>> } :
      \E stored \in SUBSET Range(order) :
        InitWith(order, stored, {}, {})

\* The application calls popup_config((name, config), root)
Open(name) ==
    /\ Len(windows) < MaxOpens
    /\ \E st \in {popup_config(State, name)} :
           /\ Commit(st)
           /\ opened' = [name |-> name, config |-> config,
                         configfile |-> configfile, writes |-> writes]
           /\ last' = [op |-> "open", win |-> Len(st.windows), fault |-> st.fault]
    /\ touched' = {}
    /\ saved' = saved

\* The user changes the control of an option shown by live window w
Edit(w, o, v) ==
    /\ w \in Live(windows)
    /\ v \in ValuesOf(defaults.at[o[1]].at[o[2]]) \ {selected[o]}
    /\ o[1] \in DOMAIN options_of(windows[w].config_dict_gui)
    /\ selected' = [selected EXCEPT ![o] = v]
    /\ touched' = touched \cup {o}
    /\ events' = <<>>
    /\ last' = [op |-> "edit", win |-> w, fault |-> FALSE]
    /\ UNCHANGED <<defaults, config, section, configfile, writes, POPUP, windows,
                   value, opened, saved>>

\* line 128: the Cancel button of live window w
\* (a variant: the file is written on the way out)
cancel_saving(st, w) == destroy(write_file(st), w)
cancel(st, w) == destroy(st, w)

Cancel(w) ==
    /\ w \in Live(windows)
    /\ \E st \in {cancel(State, w)} : Commit(st)
    /\ last' = [op |-> "cancel", win |-> w, fault |-> FALSE]
    /\ UNCHANGED <<touched, opened, saved>>

\* line 134: the Reset button of live window w
Reset(w) ==
    /\ w \in Live(windows)
    /\ \E st \in {reset(State, w)} :
           /\ Commit(st)
           /\ touched' = touched \cup
                { o \in DOMAIN selected :
                    \E i \in 1..Len(st.events) :
                       st.events[i].key = o[1] /\ st.events[i].item = o[2] }
           /\ last' = [op |-> "reset", win |-> w, fault |-> st.fault]
    /\ UNCHANGED <<opened, saved>>

\* line 131: the OK button of live window w
Save(w) ==
    /\ w \in Live(windows)
    /\ \E st \in {save_config(State, w)} :
           /\ Commit(st)
           /\ saved' = IF st.fault THEN saved
                       ELSE [win |-> w, selected |-> selected,
                             mixed |-> touched # {} /\ touched # DOMAIN selected]
           /\ touched' = IF st.fault THEN touched ELSE {}
           /\ last' = [op |-> "save", win |-> w, fault |-> st.fault]
    /\ UNCHANGED opened

AllValues == {VInt(5), VInt(12), VBool(TRUE), VBool(FALSE)}

Next ==
    \/ \E name \in Identifiers : Open(name)
    \/ \E w \in 1..Len(windows) : \E o \in DOMAIN selected : \E v \in AllValues :
          Edit(w, o, v)
    \/ \E w \in 1..Len(windows) : Cancel(w)
    \/ \E w \in 1..Len(windows) : Reset(w)
    \/ \E w \in 1..Len(windows) : Save(w)

Spec == Init /\ [][Next]_vars

NextLayout ==
    \/ \E name \in Identifiers : Open(name)
    \/ \E w \in 1..Len(windows) : Cancel(w)

SpecLayout == InitLayout /\ [][NextLayout]_vars

-----------------------------------------------------------------------------
(* Properties *)

Calls(call) == { i \in 1..Len(events) : events[i].call = call }
OptionKeys(sect) == DOMAIN defaults.at[sect].at \ {HELPTEXT}
AllOptions ==
    { o \in (DOMAIN defaults.at) \X {OPT1, FLAG} : o[2] \in OptionKeys(o[1]) }

\* C1: after any sequence of opens, cancels and saves at most one dialog is
\* live; an open destroys the dialog opened before it, whatever its identifier,
\* before it registers the new one; POPUP never holds more than one entry, and
\* that entry is the most recently opened dialog under its identifier.
C1_AtMostOneLive ==
    /\ Cardinality(Live(windows)) <= 1
    /\ Len(POPUP.keys) <= 1 /\ Cardinality(DOMAIN POPUP.at) <= 1
    /\ \A w \in 1..(Len(windows) - 1) : windows[w].destroys >= 1
    /\ windows # <<>> =>
          /\ POPUP.keys = <<opened.name>>
          /\ POPUP.at[opened.name] = Len(windows)
    /\ (last.op = "open" /\ Len(windows) > 1) =>
          \E i \in Calls("destroy") : \E j \in Calls("register") :
             /\ i < j
             /\ events[i].win = Len(windows) - 1
             /\ events[j].win = Len(windows)

\* C1's case: a dialog is opened while the dialog of another identifier is open
C1_Witness ==
    /\ last.op = "open" /\ Len(windows) = 2
    /\ windows[1].destroys = 1 /\ windows[2].destroys = 0
    /\ \E i \in Calls("del") : events[i].key # opened.name

\* C9: whenever POPUP holds an entry the registered dialog is still open, and
\* no dialog is destroyed twice (the claim as stated).
C9_RegisteredIsOpen ==
    /\ \A k \in DOMAIN POPUP.at : windows[POPUP.at[k]].destroys = 0
    /\ \A w \in 1..Len(windows) : windows[w].destroys <= 1

\* C4: after Cancel the dialog is destroyed, the collaborator has written no
\* file, and its parser and the persisted values are those of before the
\* dialog was opened, whatever was edited or reset in between.
C4_CancelWritesNothing ==
    last.op = "cancel" =>
        /\ windows[last.win].destroys >= 1
        /\ Calls("save_config") = {}
        /\ writes = opened.writes
        /\ config = opened.config
        /\ configfile = opened.configfile

\* C4's case: Cancel after edits or a reset
C4_Witness ==
    /\ last.op = "cancel" /\ touched # {}
    /\ windows[last.win].destroys = 1

\* C3: after reset, every option of every section of the defaults has its edit
\* value equal to its default, whatever was edited before, and the defaults are
\* the ones the collaborator supplied.
C3_ResetRestoresDefaults ==
    (last.op = "reset" /\ ~last.fault) =>
        \A o \in AllOptions :
            /\ o \in DOMAIN selected
            /\ selected[o] = OptionsOf(o[1]).at[o[2]].default
            /\ defaults.at[o[1]].at[o[2]] = OptionsOf(o[1]).at[o[2]]

\* C3's case: a reset of two sections that changed a value the dialog had loaded
C3_Witness ==
    /\ last.op = "reset" /\ ~last.fault
    /\ Len(defaults.keys) >= 2
    /\ \E o \in AllOptions : selected[o] # value[o]

\* C10: a Save that faults while it collects the values leaves the state as it
\* was before the Save: the collaborator's parser is not replaced, nothing is
\* written, the dialog stays open (and the edit values and the registry stay).
C10_FaultedSaveChangesNothing ==
    [][(last'.op = "save" /\ last'.fault) =>
          /\ config' = config
          /\ configfile' = configfile
          /\ writes' = writes
          /\ windows' = windows
          /\ windows'[last'.win].destroys = 0
          /\ selected' = selected
          /\ value' = value
          /\ POPUP' = POPUP]_vars

\* C10's case: Save faults after it has collected the values of a section
C10_Witness ==
    /\ last.op = "save" /\ last.fault
    /\ Calls("set") # {}
    /\ touched # {}

\* C5: a completed Save writes, for each section of the defaults in turn, the
\* section header with its help text and then the section's options, each with
\* the current edit value; only then it replaces the collaborator's parser by
\* the fresh one, then the collaborator writes the file, and last the dialog is
\* destroyed.
C5_SaveOrder ==
    (last.op = "save" /\ ~last.fault) =>
        LET n == Len(events)
        IN  /\ n >= 3
            /\ events[n] = Ev("destroy", last.win, <<>>, <<>>)
            /\ events[n - 1].call = "save_config"
            /\ events[n - 2].call = "assign"
            /\ \A i \in 1..(n - 3) : events[i].call \in {"insert_config_section", "set"}
            /\ \A sect \in DOMAIN defaults.at :
                  \E h \in Calls("insert_config_section") :
                     /\ events[h].key = sect
                     /\ \A g \in Calls("insert_config_section") \ {h} :
                           events[g].key # sect
                     /\ \A item \in OptionKeys(sect) :
                           \E i \in Calls("set") :
                              /\ events[i].key = sect /\ events[i].item = item
                              /\ h < i
                              /\ \A g \in Calls("insert_config_section") :
                                    ~(h < g /\ g < i)
                     /\ config.sects.at[sect].keys[1] =
                           format_help(defaults.at[sect].at[HELPTEXT].helptext, TRUE)
            /\ Cardinality(Calls("set")) = Cardinality(AllOptions)
            /\ config.id = last.win /\ config.id # opened.config.id
            /\ configfile = config.sects
            /\ writes = opened.writes + 1
            /\ windows[last.win].destroys = 1
            /\ \A o \in AllOptions :
                  config.sects.at[o[1]].at[o[2]] = Item(str(saved.selected[o]))

\* C5's case: a completed Save of two sections, one with options
C5_Witness ==
    /\ last.op = "save" /\ ~last.fault
    /\ Cardinality(Calls("insert_config_section")) >= 2
    /\ Calls("set") # {}

\* C2: the values a completed Save saw are the values get_config loads in every
\* dialog opened after it, for every option of the defaults; and in an open
\* dialog an option that was not touched holds the value that was loaded, which
\* is the stored value, or the default when none is stored.
C2_SaveRoundTrip ==
    /\ (saved.win > 0 /\ \E w \in Live(windows) : w > saved.win) =>
          /\ DOMAIN saved.selected = AllOptions
          /\ \A o \in AllOptions : o \in DOMAIN value /\ value[o] = saved.selected[o]
    /\ Live(windows) # {} =>
          \A o \in DOMAIN selected :
             /\ o \notin touched => selected[o] = value[o]
             /\ IF o[2] \in DOMAIN config.sects.at[o[1]].at
                  THEN config.sects.at[o[1]].at[o[2]] = Item(str(value[o]))
                  ELSE value[o] = defaults.at[o[1]].at[o[2]].default

\* C2's case: a dialog opened after a Save that saw edited and untouched
\* options, showing an option away from its default
C2_Witness ==
    /\ last.op = "open" /\ saved.win > 0 /\ saved.mixed
    /\ \E o \in AllOptions : value[o] # defaults.at[o[1]].at[o[2]].default
    /\ \E o \in AllOptions : o[2] = FLAG
    /\ \E o \in AllOptions : value[o] = VInt(12)

-----------------------------------------------------------------------------
(* Properties of the layout, under SpecLayout *)

\* s sorts before t: at the first position where they differ s has ended or has
\* the smaller character
Before(s, t) ==
    \E i \in 1..Len(t) :
        /\ i <= Len(s) + 1
        /\ \A j \in 1..(i - 1) : s[j] = t[j]
        /\ (i = Len(s) + 1 \/ CodePoint[s[i]] < CodePoint[t[i]])

Sections(conf, c) == DOMAIN conf.at[c].at

\* C6: the tabs of a dialog are one per category of its grouping; "global", if
\* it is a category, is the first tab, and the other categories follow in
\* lexicographic order.
C6_TabOrder ==
    \A w \in 1..Len(windows) :
        LET tabs == windows[w].tabs
            cats == DOMAIN windows[w].config_dict_gui.at
        IN  /\ { tabs[i].category : i \in 1..Len(tabs) } = cats
            /\ Len(tabs) = Cardinality(cats)
            /\ GLOBAL \in cats => tabs[1].category = GLOBAL
            /\ \A i, j \in 1..Len(tabs) :
                  (i < j /\ tabs[i].category # GLOBAL /\ tabs[j].category # GLOBAL)
                     => Before(tabs[i].category, tabs[j].category)

\* C6's case: "global" is moved in front of a category that sorts before it and
\* another category follows
C6_Witness ==
    \E w \in 1..Len(windows) :
        /\ Len(windows[w].tabs) >= 3
        /\ windows[w].tabs[1].category = GLOBAL
        /\ Before(windows[w].tabs[2].category, GLOBAL)
        /\ Before(GLOBAL, windows[w].tabs[3].category)

\* c is the part of sect before its first "."
FirstPart(c, sect) ==
    /\ \A i \in 1..Len(c) : c[i] # "."
    /\ \/ sect = c
       \/ /\ Len(sect) > Len(c)
          /\ SubSeq(sect, 1, Len(c)) = c
          /\ sect[Len(c) + 1] = "."

\* C7: the grouping get_config builds partitions the sections the configuration
\* lists: each is under exactly one category, the part of its name before the
\* first ".", and the grouping holds no other section and none twice.
C7_GroupingPartitions ==
    \A w \in 1..Len(windows) :
        LET conf == windows[w].config_dict_gui
        IN  /\ \A sect \in Range(config.sects.keys) :
                  /\ Cardinality({ c \in DOMAIN conf.at : sect \in Sections(conf, c) }) = 1
                  /\ \A c \in DOMAIN conf.at :
                        sect \in Sections(conf, c) => FirstPart(c, sect)
            /\ \A c \in DOMAIN conf.at :
                  /\ Sections(conf, c) \subseteq Range(config.sects.keys)
                  /\ Sections(conf, c) # {}
                  /\ Len(conf.at[c].keys) = Cardinality(Sections(conf, c))
                  /\ Range(conf.at[c].keys) = Sections(conf, c)
            /\ Len(conf.keys) = Cardinality(DOMAIN conf.at)

\* C7's case: a grouping with two sections in one category and a section whose
\* name holds two delimiters
C7_Witness ==
    \E w \in 1..Len(windows) :
        LET conf == windows[w].config_dict_gui
        IN  /\ \E c \in DOMAIN conf.at : Cardinality(Sections(conf, c)) = 2
            /\ \E c \in DOMAIN conf.at : \E sect \in Sections(conf, c) :
                  Len(sect) > Len(c) + 2 /\ rfind(sect, ".") # find(sect, ".")

OnePanelPerPlugin(conf, tab) ==
    /\ Len(tab.page.panels) = Cardinality(Sections(conf, tab.category))
    /\ { tab.page.panels[i].plugin : i \in 1..Len(tab.page.panels) }
          = Sections(conf, tab.category)

\* C8 as stated: a category of several plugins is a notebook with a sub-tab per
\* plugin, a category of a single plugin is that plugin's panel, not a notebook.
C8_NestedOnlyIfMultiple ==
    \A w \in 1..Len(windows) : \A t \in 1..Len(windows[w].tabs) :
        LET conf == windows[w].config_dict_gui
            tab == windows[w].tabs[t]
        IN  IF Cardinality(Sections(conf, tab.category)) > 1
              THEN tab.page.kind = "notebook" /\ OnePanelPerPlugin(conf, tab)
              ELSE tab.page.kind = "panel" /\ OnePanelPerPlugin(conf, tab)

\* C8 as amended: a category is a notebook with a sub-tab per plugin if some
\* section of it is named otherwise than the category (so whenever it has
\* several plugins, and also for a single plugin "category.plugin"); only a
\* category whose single section bears the category's name is that plugin's
\* panel, without a notebook.
C8_NestedUnlessNamedAsCategory ==
    \A w \in 1..Len(windows) : \A t \in 1..Len(windows[w].tabs) :
        LET conf == windows[w].config_dict_gui
            tab == windows[w].tabs[t]
        IN  /\ OnePanelPerPlugin(conf, tab)
            /\ IF Sections(conf, tab.category) = {tab.category}
                 THEN tab.page.kind = "panel"
                 ELSE tab.page.kind = "notebook"
            /\ Cardinality(Sections(conf, tab.category)) > 1
                  => tab.page.kind = "notebook"

\* C8's case: a dialog with a category of the single plugin "category.plugin",
\* built as a notebook, and a category of the plugin of its own name, a panel
C8_Witness ==
    \E w \in 1..Len(windows) :
        LET conf == windows[w].config_dict_gui
            tabs == windows[w].tabs
        IN  /\ \E t \in 1..Len(tabs) :
                  /\ Cardinality(Sections(conf, tabs[t].category)) = 1
                  /\ tabs[t].page.kind = "notebook"
            /\ \E t \in 1..Len(tabs) : tabs[t].page.kind = "panel"

====
